---------------------------- MODULE Spec2Model ----------------------------
(***************************************************************************)
(* A model of bigchaindb/commands/utils.py: the command dispatcher `start`,*)
(* the two bootstrap decorators `configure_bigchaindb` and                 *)
(* `start_logging_process`, and the value converter `_convert`.            *)
(*                                                                         *)
(* Python strings are sequences of one-character strings, so that          *)
(* str.upper, str.lower, str.replace and int() are computed character by   *)
(* character.  Python values are tagged records: None, PyStr, PyInt and    *)
(* PyBool, and Missing for an attribute the namespace does not have.       *)
(***************************************************************************)
EXTENDS Integers, Sequences, FiniteSets, TLC

VARIABLES
    pc,             \* position of the single thread of control inside start
    argv,           \* the command line handed to start (input)
    scope,          \* the set of keys of the scope that hold a handler (input)
    args,           \* the argparse namespace built by parser.parse_args
    func,           \* the handler start resolved from the scope
    stack,          \* wrappers of func still to run, outermost first
    config,         \* bigchaindb.config, the process-wide configuration
    logging_state,  \* the process-wide logging state set by dictConfig
    loader_calls,   \* arguments of every call of autoconfigure
    trace,          \* bootstrap events and handler bodies, in program order
    calls,          \* every invocation start made of a handler of the scope
    cpu_count,      \* what mp.cpu_count() returned, None while not called
    result,         \* what func(args) returned or raised, Pending before
    help_printed,   \* parser.print_help() was called
    outcome,        \* how start ended: still running, a return or a raise
    cv_in,          \* _convert: the arguments (value, default, convert)
    cv_out          \* _convert: its result, or Pending before the call

startVars == <<pc, argv, scope, args, func, stack, config, logging_state,
               loader_calls, trace, calls, cpu_count, result, help_printed,
               outcome>>
convertVars == <<cv_in, cv_out>>
vars == <<pc, argv, scope, args, func, stack, config, logging_state,
          loader_calls, trace, calls, cpu_count, result, help_printed,
          outcome, cv_in, cv_out>>

---------------------------------------------------------------------------
(* Bounds of the model.                                                    *)

MaxCpu == 2        \* mp.cpu_count() returns a value in 1..MaxCpu
MaxProcs == 2      \* explicit --multiprocess counts are 0..MaxProcs
MaxLen == 2        \* _convert is given every string over Alphabet up to MaxLen

---------------------------------------------------------------------------
(* Python values.                                                          *)

None == [t |-> "NoneType"]
Missing == [t |-> "missing"]
PyStr(s) == [t |-> "str", v |-> s]
PyInt(n) == [t |-> "int", v |-> n]
PyBool(b) == [t |-> "bool", v |-> b]

IsNone(x) == x.t = "NoneType"
IsMissing(x) == x.t = "missing"

\* Python truth value testing, as used by `not args.command` and `not func`.
Falsy(x) ==
    \/ x.t = "NoneType"
    \/ x.t = "str" /\ x.v = <<>>
    \/ x.t = "bool" /\ ~x.v
    \/ x.t = "int" /\ x.v = 0

---------------------------------------------------------------------------
(* Strings.                                                                *)

LowerLetters == <<"a","b","c","d","e","f","g","h","i","j","k","l","m",
                  "n","o","p","q","r","s","t","u","v","w","x","y","z">>
UpperLetters == <<"A","B","C","D","E","F","G","H","I","J","K","L","M",
                  "N","O","P","Q","R","S","T","U","V","W","X","Y","Z">>

UpperChar(c) ==
    IF \E i \in DOMAIN LowerLetters : LowerLetters[i] = c
    THEN UpperLetters[CHOOSE i \in DOMAIN LowerLetters : LowerLetters[i] = c]
    ELSE c

LowerChar(c) ==
    IF \E i \in DOMAIN UpperLetters : UpperLetters[i] = c
    THEN LowerLetters[CHOOSE i \in DOMAIN UpperLetters : UpperLetters[i] = c]
    ELSE c

\* str.upper and str.lower
Upper(s) == [i \in 1..Len(s) |-> UpperChar(s[i])]
Lower(s) == [i \in 1..Len(s) |-> LowerChar(s[i])]

\* s.replace(a, b) for one-character a and b
Replace(s, a, b) == [i \in 1..Len(s) |-> IF s[i] = a THEN b ELSE s[i]]

S_DEBUG == <<"D","E","B","U","G">>
S_INFO == <<"I","N","F","O">>
S_WARNING == <<"W","A","R","N","I","N","G">>
S_ERROR == <<"E","R","R","O","R">>
S_CRITICAL == <<"C","R","I","T","I","C","A","L">>

\* choices of the --log-level flag
LogLevelChoices == {S_DEBUG, S_INFO, S_WARNING, S_ERROR, S_CRITICAL}

S_start == <<"s","t","a","r","t">>
S_show_config == <<"s","h","o","w","-","c","o","n","f","i","g">>
S_init == <<"i","n","i","t">>
S_drop == <<"d","r","o","p">>
S_run_ == <<"r","u","n","_">>

---------------------------------------------------------------------------
(* Inputs of start: the command line, the parser and the scope.            *)

\* Command names the parser can put in args.command; None when no
\* subcommand was given.
Commands == {None, PyStr(S_start), PyStr(S_show_config), PyStr(S_init),
             PyStr(S_drop)}

\* What the user can type after --log-level; None when the flag is not given.
RawLogLevels == {None, PyStr(<<"e","r","r","o","r">>), PyStr(S_ERROR),
                 PyStr(<<"D","e","b","u","g">>),
                 PyStr(<<"l","o","u","d">>)}

\* What the user can give to --config; None when the flag is not given.
ConfigPaths == {None, PyStr(<<"b",".","c","f","g">>)}

\* What the parser leaves in args.multiprocess: no such attribute, the
\* default False, None for the flag without a value, or an explicit count.
MultiprocessHints ==
    {Missing, PyBool(FALSE), None} \cup {PyInt(n) : n \in 0..MaxProcs}

\* has_config, has_log_level: the parser defines the flag, as base_parser
\* does, so that the namespace has the attribute.
Argvs == [command : Commands, log_level : RawLogLevels, config : ConfigPaths,
          multiprocess : MultiprocessHints, has_config : BOOLEAN,
          has_log_level : BOOLEAN]

\* The key start builds from a command name.
Key(command) == S_run_ \o Replace(command, "-", "_")

\* Keys a scope may hold a handler under.
ScopeKeys == {Key(S_start), Key(S_show_config), Key(S_init),
              S_run_ \o S_show_config}

\* How a handler of the scope is built from the two decorators, outermost
\* wrapper first; the empty sequence is an undecorated handler.
Decorations == {<<>>, <<"configure">>, <<"start_logging">>,
                <<"configure", "start_logging">>,
                <<"start_logging", "configure">>}

\* What a handler body can return.
Results == {None, PyBool(TRUE)}

Running == [kind |-> "running"]
Returned(value) == [kind |-> "return", value |-> value]
Raised(exc, arg) == [kind |-> "raise", exc |-> exc, arg |-> arg]

NoArgs == [command |-> Missing, log_level |-> Missing, config |-> Missing,
           multiprocess |-> Missing]

---------------------------------------------------------------------------
(* The process configuration and its loader.                               *)

S_info == <<"i","n","f","o">>
S_debug == <<"d","e","b","u","g">>

\* bigchaindb.config['log'] before any file or override is merged.
DefaultLog ==
    [file |-> "bigchaindb.log", error_file |-> "bigchaindb-errors.log",
     level_console |-> S_info, level_logfile |-> S_info,
     datefmt_console |-> "%Y-%m-%d %H:%M:%S",
     datefmt_logfile |-> "%Y-%m-%d %H:%M:%S",
     fmt_console |-> "console-format", fmt_logfile |-> "logfile-format"]

\* bigchaindb.config as imported, before autoconfigure ran.
DefaultConfig ==
    [CONFIGURED |-> FALSE, log |-> DefaultLog, server |-> [loglevel |-> S_info]]

\* The log sections a configuration file can hold.
FileLogSections ==
    { [file |-> "bigchaindb.log"],
      [level_console |-> S_debug, level_logfile |-> S_debug],
      [file |-> "node.log", error_file |-> "node-errors.log",
       level_logfile |-> S_WARNING, datefmt_logfile |-> "%H:%M",
       fmt_console |-> "short", fmt_logfile |-> "long"] }

\* d.update(over) restricted to the keys of d
Update(d, over) ==
    [k \in DOMAIN d |-> IF k \in DOMAIN over THEN over[k] ELSE d[k]]

\* bigchaindb.config_utils.autoconfigure(filename, config, force=True) when
\* it succeeds: the defaults, then the file, then the override; later wins.
Autoconfigure(file_log, cmdline) ==
    IF IsNone(cmdline)
    THEN [CONFIGURED |-> TRUE, log |-> Update(DefaultLog, file_log),
          server |-> [loglevel |-> S_info]]
    ELSE [CONFIGURED |-> TRUE,
          log |-> Update(Update(DefaultLog, file_log), cmdline.log),
          server |-> cmdline.server]

\* ConfigFromCmdline with the level_logfile entry left out.
ConfigFromCmdline_ConsoleOnly(a) ==
    IF IsMissing(a.log_level) THEN None
    ELSE IF ~IsNone(a.log_level)
    THEN [t |-> "dict",
          log |-> [level_console |-> a.log_level.v],
          server |-> [loglevel |-> a.log_level.v]]
    ELSE None

\* configure, lines 32-43: the override built from args.log_level.  The
\* AttributeError of a namespace without log_level is swallowed.
ConfigFromCmdline(a) ==
    IF IsMissing(a.log_level) THEN None
    ELSE IF ~IsNone(a.log_level)
    THEN [t |-> "dict",
          log |-> [level_console |-> a.log_level.v,
                   level_logfile |-> a.log_level.v],
          server |-> [loglevel |-> a.log_level.v]]
    ELSE None

---------------------------------------------------------------------------
(* The logging configuration.                                              *)

\* bigchaindb.log.DEFAULT_LOGGING_CONFIG, the fields start_logging writes.
DEFAULT_LOGGING_CONFIG ==
    [handlers |->
        [console |-> [level |-> S_DEBUG],
         file |-> [filename |-> "bigchaindb.log", level |-> S_INFO],
         errors |-> [filename |-> "bigchaindb-errors.log"]],
     formatters |->
        [console |-> [datefmt |-> "%Y-%m-%d %H:%M:%S", format |-> "default"],
         file |-> [datefmt |-> "%Y-%m-%d %H:%M:%S", format |-> "default"]]]

\* start_logging, lines 71-89: DEFAULT_LOGGING_CONFIG overwritten from the
\* log section of the configuration.
LoggingConfigs(new_logging_configs) ==
    [DEFAULT_LOGGING_CONFIG EXCEPT
        !.handlers.file.filename = new_logging_configs.file,
        !.handlers.errors.filename = new_logging_configs.error_file,
        !.handlers.console.level = Upper(new_logging_configs.level_console),
        !.handlers.file.level = Upper(new_logging_configs.level_logfile),
        !.formatters.console.datefmt = new_logging_configs.datefmt_console,
        !.formatters.file.datefmt = new_logging_configs.datefmt_logfile,
        !.formatters.console.format = new_logging_configs.fmt_console,
        !.formatters.file.format = new_logging_configs.fmt_console]

---------------------------------------------------------------------------
(* start: parsing.                                                         *)

\* argparse rejects the command line: a flag the parser does not define, or
\* a --log-level whose upper-cased value is not among the choices.
ParserRejects(av) ==
    \/ ~av.has_config /\ ~IsNone(av.config)
    \/ ~av.has_log_level /\ ~IsNone(av.log_level)
    \/ /\ av.has_log_level
       /\ ~IsNone(av.log_level)
       /\ Upper(av.log_level.v) \notin LogLevelChoices

\* The namespace parser.parse_args builds; --log-level has type=str.upper.
ParseArgs(av) ==
    [command |-> av.command,
     log_level |-> IF ~av.has_log_level THEN Missing
                   ELSE IF IsNone(av.log_level) THEN None
                   ELSE PyStr(Upper(av.log_level.v)),
     config |-> IF av.has_config THEN av.config ELSE Missing,
     multiprocess |-> av.multiprocess]

\* start, line 158
Parse ==
    /\ pc = "start"
    /\ IF ParserRejects(argv)
       THEN /\ pc' = "done"
            /\ outcome' = Raised("SystemExit", PyInt(2))
            /\ args' = args
       ELSE /\ pc' = "parsed"
            /\ outcome' = outcome
            /\ args' = ParseArgs(argv)
    /\ UNCHANGED <<argv, scope, func, stack, config, logging_state,
                   loader_calls, trace, calls, cpu_count, result,
                   help_printed>>
    /\ UNCHANGED convertVars

\* NoCommand ending with SystemExit(1).
NoCommand_ExitOne ==
    /\ pc = "parsed"
    /\ Falsy(args.command)
    /\ help_printed' = TRUE
    /\ outcome' = Raised("SystemExit", PyInt(1))
    /\ pc' = "done"
    /\ UNCHANGED <<argv, scope, args, func, stack, config, logging_state,
                   loader_calls, trace, calls, cpu_count, result>>
    /\ UNCHANGED convertVars

\* start, lines 160-162: SystemExit() carries no code, which is status 0.
NoCommand ==
    /\ pc = "parsed"
    /\ Falsy(args.command)
    /\ help_printed' = TRUE
    /\ outcome' = Raised("SystemExit", None)
    /\ pc' = "done"
    /\ UNCHANGED <<argv, scope, args, func, stack, config, logging_state,
                   loader_calls, trace, calls, cpu_count, result>>
    /\ UNCHANGED convertVars

---------------------------------------------------------------------------
(* start: dispatch.                                                        *)

Function(key, wrappers) == [t |-> "function", key |-> key, wrappers |-> wrappers]

\* ScopeGet without the replacement of '-' by '_'.
ScopeGet_NoReplace(sc, command, wrappers) ==
    IF (S_run_ \o command) \in sc
    THEN Function(S_run_ \o command, wrappers) ELSE None

\* scope.get('run_' + args.command.replace('-', '_')), line 166
ScopeGet(sc, command, wrappers) ==
    IF Key(command) \in sc THEN Function(Key(command), wrappers) ELSE None

\* start, lines 164-171.  The message of the NotImplementedError is
\* 'Command `{}` not yet implemented'.format(args.command).
Lookup ==
    /\ pc = "parsed"
    /\ ~Falsy(args.command)
    /\ \E wrappers \in Decorations :
        LET f == ScopeGet(scope, args.command.v, wrappers)
        IN IF Falsy(f)
           THEN /\ outcome' = Raised("NotImplementedError", args.command)
                /\ pc' = "done"
                /\ func' = func
           ELSE /\ outcome' = outcome
                /\ pc' = "found"
                /\ func' = f
    /\ UNCHANGED <<argv, scope, args, stack, config, logging_state,
                   loader_calls, trace, calls, cpu_count, result,
                   help_printed>>
    /\ UNCHANGED convertVars

\* NormalizeMultiprocess with `== False` for `is False`: 0 == False in Python.
NormalizeMultiprocess_Eq(multiprocess, cpus) ==
    LET hint == IF IsMissing(multiprocess) THEN PyBool(FALSE) ELSE multiprocess
    IN IF hint = PyBool(FALSE) \/ hint = PyInt(0) THEN PyInt(1)
       ELSE IF IsNone(hint) THEN PyInt(cpus)
       ELSE hint

\* start, lines 173-178: getattr(args, 'multiprocess', False), then the
\* identity tests `is False` and `is None`.
NormalizeMultiprocess(multiprocess, cpus) ==
    LET hint == IF IsMissing(multiprocess) THEN PyBool(FALSE) ELSE multiprocess
    IN IF hint = PyBool(FALSE) THEN PyInt(1)
       ELSE IF IsNone(hint) THEN PyInt(cpus)
       ELSE hint

\* start, lines 173-178; mp.cpu_count() is called for the None hint only
\* and returns at least 1.
Normalize ==
    /\ pc = "found"
    /\ IF IsNone(args.multiprocess)
       THEN \E cpus \in 1..MaxCpu :
              /\ cpu_count' = PyInt(cpus)
              /\ args' = [args EXCEPT
                            !.multiprocess = NormalizeMultiprocess(@, cpus)]
       ELSE /\ cpu_count' = cpu_count
            /\ args' = [args EXCEPT
                          !.multiprocess = NormalizeMultiprocess(@, 1)]
    /\ pc' = "normalized"
    /\ UNCHANGED <<argv, scope, func, stack, config, logging_state,
                   loader_calls, trace, calls, result, help_printed, outcome>>
    /\ UNCHANGED convertVars

\* start, line 180: func(args) is entered.
Invoke ==
    /\ pc = "normalized"
    /\ calls' = Append(calls, [func |-> func, args |-> args])
    /\ stack' = func.wrappers
    /\ pc' = "call"
    /\ UNCHANGED <<argv, scope, args, func, config, logging_state,
                   loader_calls, trace, cpu_count, result, help_printed,
                   outcome>>
    /\ UNCHANGED convertVars

\* Return with the `return` keyword left out: func(args) is evaluated and
\* start returns None.
Return_Discard ==
    /\ pc = "returning"
    /\ outcome' = IF result.kind = "return" THEN Returned(None) ELSE result
    /\ pc' = "done"
    /\ UNCHANGED <<argv, scope, args, func, stack, config, logging_state,
                   loader_calls, trace, calls, cpu_count, result,
                   help_printed>>
    /\ UNCHANGED convertVars

\* start, line 180: what func(args) returned is returned, what it raised
\* propagates.
Return ==
    /\ pc = "returning"
    /\ outcome' = result
    /\ pc' = "done"
    /\ UNCHANGED <<argv, scope, args, func, stack, config, logging_state,
                   loader_calls, trace, calls, cpu_count, result,
                   help_printed>>
    /\ UNCHANGED convertVars

---------------------------------------------------------------------------
(* The wrappers and the handler body.                                      *)

Event(ev, arg) == [ev |-> ev, arg |-> arg]

\* Configure with the loader's failure swallowed: command(args) is called
\* all the same.
Configure_Swallow ==
    /\ pc = "call"
    /\ stack # <<>>
    /\ Head(stack) = "configure"
    /\ IF IsMissing(args.config)
       THEN /\ result' = Raised("AttributeError", None)
            /\ pc' = "returning"
            /\ UNCHANGED <<stack, config, loader_calls, trace>>
       ELSE \E loaded \in BOOLEAN, file_log \in FileLogSections :
            /\ loader_calls' =
                Append(loader_calls,
                       [filename |-> args.config,
                        config |-> ConfigFromCmdline(args),
                        force |-> TRUE,
                        raised |-> ~loaded])
            /\ IF loaded
               THEN /\ config' = Autoconfigure(file_log, ConfigFromCmdline(args))
                    /\ trace' = Append(trace, Event("autoconfigure", None))
               ELSE UNCHANGED <<config, trace>>
            /\ stack' = Tail(stack)
            /\ UNCHANGED <<pc, result>>
    /\ UNCHANGED <<argv, scope, args, func, logging_state, calls, cpu_count,
                   help_printed, outcome>>
    /\ UNCHANGED convertVars

\* configure, lines 31-46.  args.config raises AttributeError when the
\* namespace has no such attribute; a failure of the loader propagates and
\* command(args) is not reached.
Configure ==
    /\ pc = "call"
    /\ stack # <<>>
    /\ Head(stack) = "configure"
    /\ IF IsMissing(args.config)
       THEN /\ result' = Raised("AttributeError", None)
            /\ pc' = "returning"
            /\ UNCHANGED <<stack, config, loader_calls, trace>>
       ELSE \E loaded \in BOOLEAN, file_log \in FileLogSections :
            /\ loader_calls' =
                Append(loader_calls,
                       [filename |-> args.config,
                        config |-> ConfigFromCmdline(args),
                        force |-> TRUE,
                        raised |-> ~loaded])
            /\ IF loaded
               THEN /\ config' = Autoconfigure(file_log, ConfigFromCmdline(args))
                    /\ trace' = Append(trace, Event("autoconfigure", None))
                    /\ stack' = Tail(stack)
                    /\ UNCHANGED <<pc, result>>
               ELSE /\ result' = Raised("ConfigurationError", None)
                    /\ pc' = "returning"
                    /\ UNCHANGED <<stack, config, trace>>
    /\ UNCHANGED <<argv, scope, args, func, logging_state, calls, cpu_count,
                   help_printed, outcome>>
    /\ UNCHANGED convertVars

\* StartLogging without the call of set_logging_config.
StartLogging_NoApply ==
    /\ pc = "call"
    /\ stack # <<>>
    /\ Head(stack) = "start_logging"
    /\ stack' = Tail(stack)
    /\ UNCHANGED <<pc, argv, scope, args, func, config, logging_state,
                   loader_calls, trace, calls, cpu_count, result,
                   help_printed, outcome>>
    /\ UNCHANGED convertVars

\* start_logging, lines 70-92: the logging configuration is derived from
\* bigchaindb.config['log'] and applied with dictConfig.
StartLogging ==
    /\ pc = "call"
    /\ stack # <<>>
    /\ Head(stack) = "start_logging"
    /\ logging_state' = LoggingConfigs(config.log)
    /\ trace' = Append(trace, Event("set_logging_config",
                                    LoggingConfigs(config.log)))
    /\ stack' = Tail(stack)
    /\ UNCHANGED <<pc, argv, scope, args, func, config, loader_calls, calls,
                   cpu_count, result, help_printed, outcome>>
    /\ UNCHANGED convertVars

\* HandlerBody with start_logging undoing the logging configuration when
\* command(args) raises.
HandlerBody_Rollback ==
    /\ pc = "call"
    /\ stack = <<>>
    /\ \E value \in Results, completes \in BOOLEAN :
        LET body == IF completes THEN Returned(value)
                    ELSE Raised("HandlerError", None)
        IN /\ trace' = Append(trace, Event("body", body))
           /\ result' = IF completes /\ func.wrappers # <<>>
                        THEN Returned(None) ELSE body
           /\ logging_state' = IF completes THEN logging_state ELSE None
    /\ pc' = "returning"
    /\ UNCHANGED <<argv, scope, args, func, stack, config, loader_calls,
                   calls, cpu_count, help_printed, outcome>>
    /\ UNCHANGED convertVars

\* command(args) of the innermost wrapper, or func(args) of start for an
\* undecorated handler: the body returns a value or raises.  Neither
\* wrapper has a return statement, so a decorated handler returns None.
HandlerBody ==
    /\ pc = "call"
    /\ stack = <<>>
    /\ \E value \in Results, completes \in BOOLEAN :
        LET body == IF completes THEN Returned(value)
                    ELSE Raised("HandlerError", None)
        IN /\ trace' = Append(trace, Event("body", body))
           /\ result' = IF completes /\ func.wrappers # <<>>
                        THEN Returned(None) ELSE body
    /\ pc' = "returning"
    /\ UNCHANGED <<argv, scope, args, func, stack, config, logging_state,
                   loader_calls, calls, cpu_count, help_printed, outcome>>
    /\ UNCHANGED convertVars

---------------------------------------------------------------------------
(* The dispatcher's specification.                                         *)

Pending == [kind |-> "pending"]

Init ==
    /\ pc = "start"
    /\ argv \in Argvs
    /\ scope \in SUBSET ScopeKeys
    /\ args = NoArgs
    /\ func = None
    /\ stack = <<>>
    /\ config = DefaultConfig
    /\ logging_state = None
    /\ loader_calls = <<>>
    /\ trace = <<>>
    /\ calls = <<>>
    /\ cpu_count = None
    /\ result = Pending
    /\ help_printed = FALSE
    /\ outcome = Running
    /\ cv_in = None
    /\ cv_out = Pending

Next ==
    \/ Parse
    \/ NoCommand
    \/ Lookup
    \/ Normalize
    \/ Invoke
    \/ Configure
    \/ StartLogging
    \/ HandlerBody
    \/ Return

Spec == Init /\ [][Next]_vars

---------------------------------------------------------------------------
(* _convert and input_on_stderr.                                           *)

Digits == <<"0","1","2","3","4","5","6","7","8","9">>

IsDigit(c) == \E i \in DOMAIN Digits : Digits[i] = c
DigitValue(c) == (CHOOSE i \in DOMAIN Digits : Digits[i] = c) - 1

RECURSIVE IntOf(_)
IntOf(s) ==
    IF s = <<>> THEN 0
    ELSE 10 * IntOf(SubSeq(s, 1, Len(s) - 1)) + DigitValue(s[Len(s)])

\* int(value) for a string without sign, blank or underscore
PyIntOf(value) ==
    IF value # <<>> /\ \A i \in DOMAIN value : IsDigit(value[i])
    THEN Returned(PyInt(IntOf(value)))
    ELSE Raised("ValueError", PyStr(value))

S_true == <<"t","r","u","e">>
S_t == <<"t">>
S_yes == <<"y","e","s">>
S_y == <<"y">>
S_false == <<"f","a","l","s","e">>
S_f == <<"f">>
S_no == <<"n","o">>
S_n == <<"n">>

\* convert_bool without value.lower().
convert_bool_CaseSensitive(value) ==
    IF value \in {S_true, S_t, S_yes, S_y} THEN Returned(PyBool(TRUE))
    ELSE IF value \in {S_false, S_f, S_no, S_n}
    THEN Returned(PyBool(FALSE))
    ELSE Raised("ValueError", PyStr(value))

\* convert_bool, lines 97-102.  The message of the ValueError is
\* '{} cannot be converted to bool'.format(value).
convert_bool(value) ==
    IF Lower(value) \in {S_true, S_t, S_yes, S_y} THEN Returned(PyBool(TRUE))
    ELSE IF Lower(value) \in {S_false, S_f, S_no, S_n}
    THEN Returned(PyBool(FALSE))
    ELSE Raised("ValueError", PyStr(value))

\* A callable given as convert (or found as type(default)), by name;
\* "reject" is a converter that raises on every input.
Callable(name) == [t |-> "callable", name |-> name]

\* type(default) for the defaults of the model
TypeOf(default) == Callable(default.t)

\* convert(value), line 119
Apply(convert, value) ==
    CASE convert.name = "convert_bool" -> convert_bool(value)
      [] convert.name = "bool" -> Returned(PyBool(value # <<>>))
      [] convert.name = "str" -> Returned(PyStr(value))
      [] convert.name = "int" -> PyIntOf(value)
      [] convert.name = "reject" -> Raised("RejectError", PyStr(value))

\* _convert without lines 104-105: the empty string is not taken as None.
_convert_KeepEmpty(value, default, convert) ==
    LET convert1 == IF IsNone(convert)
                    THEN IF ~IsNone(default) THEN TypeOf(default)
                         ELSE Callable("str")
                    ELSE convert
        convert2 == IF convert1 = Callable("bool")
                    THEN Callable("convert_bool") ELSE convert1
    IN IF IsNone(value) THEN Returned(default)
       ELSE Apply(convert2, value.v)

\* _convert, lines 96-119
_convert(value, default, convert) ==
    LET value1 == IF value = PyStr(<<>>) THEN None ELSE value
        convert1 == IF IsNone(convert)
                    THEN IF ~IsNone(default) THEN TypeOf(default)
                         ELSE Callable("str")
                    ELSE convert
        convert2 == IF convert1 = Callable("bool")
                    THEN Callable("convert_bool") ELSE convert1
    IN IF IsNone(value1) THEN Returned(default)
       ELSE Apply(convert2, value1.v)

\* The characters a line read from standard input is made of.
Alphabet == {"t", "T", "y", "Y", "n", "N", "o", "f", "F", "1", "0", "x"}

RECURSIVE StringsUpTo(_)
StringsUpTo(n) ==
    IF n = 0 THEN {<<>>}
    ELSE LET shorter == StringsUpTo(n - 1)
         IN shorter \cup {Append(s, c) : s \in shorter, c \in Alphabet}

\* Longer lines: the boolean words in several spellings, and near misses.
Words ==
    {S_true, <<"T","r","u","e">>, <<"T","R","U","E">>, <<"t","R","u","E">>,
     S_yes, <<"Y","e","s">>, <<"Y","E","S">>,
     S_false, <<"F","a","l","s","e">>, <<"F","A","L","S","E">>,
     <<"t","r","u">>, <<"t","r","u","e","e">>, <<"y","e","s","s">>,
     <<"n","o","p","e">>, <<"f","a","l","s">>, <<"1","2","0">>,
     <<"t","r","u","e"," ">>, <<"o","n">>, <<"o","f","f">>}

InputLines == {PyStr(s) : s \in StringsUpTo(MaxLen) \cup Words}

Defaults == {None, PyBool(TRUE), PyBool(FALSE), PyInt(0), PyInt(7),
             PyStr(<<>>), PyStr(<<"x">>)}

Converters == {None, Callable("bool"), Callable("str"), Callable("int"),
               Callable("reject")}

\* input_on_stderr, lines 125-139: a line is read from standard input and
\* handed to _convert with the default and the converter of the call.
input_on_stderr ==
    /\ pc = "prompt"
    /\ cv_out = Pending
    /\ \E value \in InputLines :
        /\ cv_in' = [cv_in EXCEPT !.value = value]
        /\ cv_out' = _convert(value, cv_in.default, cv_in.convert)
    /\ UNCHANGED startVars

InitConvert ==
    /\ pc = "prompt"
    /\ argv = [command |-> None, log_level |-> None, config |-> None,
               multiprocess |-> Missing, has_config |-> TRUE,
               has_log_level |-> TRUE]
    /\ scope = {}
    /\ args = NoArgs
    /\ func = None
    /\ stack = <<>>
    /\ config = DefaultConfig
    /\ logging_state = None
    /\ loader_calls = <<>>
    /\ trace = <<>>
    /\ calls = <<>>
    /\ cpu_count = None
    /\ result = Pending
    /\ help_printed = FALSE
    /\ outcome = Running
    /\ cv_in \in [value : {None}, default : Defaults, convert : Converters]
    /\ cv_out = Pending

NextConvert == input_on_stderr

SpecConvert == InitConvert /\ [][NextConvert]_vars

---------------------------------------------------------------------------
(* Properties.                                                             *)

Events(tr) == [i \in DOMAIN tr |-> tr[i].ev]
Happened(ev) == \E i \in DOMAIN trace : trace[i].ev = ev
Count(ev) == Cardinality({i \in DOMAIN trace : trace[i].ev = ev})

\* func is a handler decorated with configure_bigchaindb (outer) and
\* start_logging_process (inner).
Bootstrapped ==
    /\ ~IsNone(func)
    /\ func.wrappers = <<"configure", "start_logging">>

\* The handler body is about to start.
BodyStarts == pc = "call" /\ stack = <<>>

\* start parsed a command name, and the scope has no handler under its key.
UnknownCommand ==
    /\ args.command.t = "str"
    /\ args.command.v # <<>>
    /\ Key(args.command.v) \notin scope

\* start parsed a command name, and the scope has a handler under its key.
KnownCommand ==
    /\ args.command.t = "str"
    /\ args.command.v # <<>>
    /\ Key(args.command.v) \in scope

\* The exit status of a SystemExit: no code is status 0.
ExitStatus(o) == IF IsNone(o.arg) THEN 0 ELSE o.arg.v

\* C1: for a handler wrapped by configure_bigchaindb (outer) and
\* start_logging_process (inner), the forced autoconfigure call installs the
\* configuration, then the logging configuration is derived from its log
\* section and applied, then the body runs; the body never starts with the
\* configuration or the logging state not installed.
C1_BootstrapOrder ==
    Bootstrapped =>
        /\ Events(trace) \in {<<>>, <<"autoconfigure">>,
                              <<"autoconfigure", "set_logging_config">>,
                              <<"autoconfigure", "set_logging_config", "body">>}
        /\ Happened("autoconfigure") =>
              /\ config.CONFIGURED
              /\ Len(loader_calls) = 1
              /\ loader_calls[1].force
        /\ Happened("set_logging_config") =>
              logging_state = LoggingConfigs(config.log)
        /\ BodyStarts =>
              /\ config.CONFIGURED
              /\ logging_state # None
              /\ Events(trace) = <<"autoconfigure", "set_logging_config">>

C1_Witness ==
    /\ Bootstrapped
    /\ pc = "done"
    /\ Events(trace) = <<"autoconfigure", "set_logging_config", "body">>
    /\ outcome = Returned(None)

\* C2: a command name whose key has no handler in the scope ends start with
\* a NotImplementedError naming the command, and no handler is invoked.
C2_UnknownCommandFails ==
    UnknownCommand =>
        /\ pc \in {"parsed", "done"}
        /\ pc = "done" => outcome = Raised("NotImplementedError", argv.command)
        /\ calls = <<>>
        /\ trace = <<>>

C2_Witness ==
    /\ UnknownCommand
    /\ argv.command = PyStr(S_show_config)
    /\ (S_run_ \o S_show_config) \in scope
    /\ pc = "done"
    /\ outcome.kind = "raise"

\* C3: with no command in the parsed arguments, start prints the help and
\* ends with SystemExit of status zero; no handler is invoked and no
\* NotImplementedError is raised, whatever the scope holds.
C3_NoCommandExitsCleanly ==
    IsNone(args.command) =>
        /\ pc \in {"parsed", "done"}
        /\ pc = "done" =>
              /\ help_printed
              /\ outcome.kind = "raise"
              /\ outcome.exc = "SystemExit"
              /\ ExitStatus(outcome) = 0
        /\ calls = <<>>
        /\ trace = <<>>

C3_Witness ==
    /\ IsNone(args.command)
    /\ pc = "done"
    /\ scope = ScopeKeys
    /\ help_printed

\* C4: the handler receives multiprocess = 1 when the hint was absent, the
\* host's processing-unit count (at least 1) when the hint was None, and
\* the explicit count n unchanged when the hint was the integer n.
C4_MultiprocessNormalized ==
    calls # <<>> =>
        LET hint == argv.multiprocess
            got == calls[1].args.multiprocess
        IN /\ IsMissing(hint) => got = PyInt(1)
           /\ hint = PyBool(FALSE) => got = PyInt(1)
           /\ IsNone(hint) => /\ got = cpu_count
                              /\ got.t = "int"
                              /\ got.v > 0
           /\ hint.t = "int" => got = hint

C4_Witness ==
    /\ calls # <<>>
    /\ argv.multiprocess = PyInt(0)
    /\ calls[1].args.multiprocess = PyInt(0)

\* C5: for a command name whose key holds a handler in the scope, start
\* invokes that handler exactly once with the parsed arguments, invokes no
\* other handler, and returns the handler's result.
C5_DispatchesOnce ==
    KnownCommand =>
        /\ Len(calls) <= 1
        /\ pc \in {"call", "returning", "done"} =>
              /\ Len(calls) = 1
              /\ calls[1].func = func
              /\ func.key = S_run_ \o Replace(argv.command.v, "-", "_")
              /\ func.key \in scope
              /\ calls[1].args = args
              /\ calls[1].args.command = argv.command
        /\ pc = "done" => outcome = result

C5_Witness ==
    /\ KnownCommand
    /\ argv.command = PyStr(S_show_config)
    /\ (S_run_ \o S_show_config) \in scope
    /\ ~IsNone(func)
    /\ func.wrappers = <<>>
    /\ pc = "done"
    /\ outcome = Returned(PyBool(TRUE))

\* C6: with a log_level L in the arguments, the logging state installed
\* before the body runs has the console and the file threshold equal to L,
\* whatever the file and the defaults say; with log_level None or not an
\* attribute of the arguments, the loader is given no override.
C6_LogLevelOverride ==
    /\ (Bootstrapped /\ args.log_level.t = "str"
                     /\ Happened("set_logging_config")) =>
          /\ logging_state.handlers.console.level = args.log_level.v
          /\ logging_state.handlers.file.level = args.log_level.v
    /\ args.log_level.t \in {"NoneType", "missing"} =>
          \A i \in DOMAIN loader_calls : loader_calls[i].config = None

C6_Witness ==
    /\ Bootstrapped
    /\ pc = "done"
    /\ argv.log_level = PyStr(<<"e","r","r","o","r">>)
    /\ Happened("body")
    /\ logging_state.handlers.console.level = S_ERROR
    /\ logging_state.handlers.file.level = S_ERROR

\* C9: a failure of the configuration loader propagates unchanged to the
\* caller of start, and the handler wrapped by configure_bigchaindb is not
\* invoked: no logging configuration is derived or applied by it and the
\* body does not run.
C9_LoaderFailurePropagates ==
    (\E i \in DOMAIN loader_calls : loader_calls[i].raised) =>
        /\ pc \in {"returning", "done"}
        /\ result = Raised("ConfigurationError", None)
        /\ pc = "done" => outcome = Raised("ConfigurationError", None)
        /\ ~Happened("body")
        /\ ~Happened("autoconfigure")
        /\ ~config.CONFIGURED
        /\ Head(func.wrappers) = "configure" =>
              /\ trace = <<>>
              /\ logging_state = None

C9_Witness ==
    /\ Bootstrapped
    /\ pc = "done"
    /\ loader_calls # <<>>
    /\ loader_calls[1].raised
    /\ outcome = Raised("ConfigurationError", None)

\* C10: when the body of a handler wrapped by start_logging_process raises,
\* the failure propagates and the logging state stays installed: from its
\* installation on, the installed logging state is the one derived at
\* bootstrap, and it is installed once.
C10_LoggingStaysInstalled ==
    /\ Count("set_logging_config") <= 1
    /\ \A i \in DOMAIN trace :
          trace[i].ev = "set_logging_config" => logging_state = trace[i].arg
    /\ \A i \in DOMAIN trace :
          (trace[i].ev = "body" /\ trace[i].arg.kind = "raise") =>
              /\ pc \in {"returning", "done"}
              /\ result = trace[i].arg
              /\ pc = "done" => outcome = trace[i].arg
              /\ (\E j \in DOMAIN func.wrappers :
                      func.wrappers[j] = "start_logging") =>
                    /\ Count("set_logging_config") = 1
                    /\ logging_state # None

C10_Witness ==
    /\ Bootstrapped
    /\ pc = "done"
    /\ outcome = Raised("HandlerError", None)
    /\ Count("set_logging_config") = 1
    /\ logging_state # None

\* The boolean converter is in effect in _convert: given as convert, or
\* inferred from a boolean default.
BoolInEffect ==
    \/ cv_in.convert = Callable("bool")
    \/ IsNone(cv_in.convert) /\ cv_in.default.t = "bool"

EqualsIgnoringCase(s, w) ==
    /\ Len(s) = Len(w)
    /\ \A i \in DOMAIN s : UpperChar(s[i]) = UpperChar(w[i])

\* C7: with the boolean converter in effect, a non-empty string equal to
\* true, t, yes or y ignoring case converts to true, one equal to false, f,
\* no or n ignoring case converts to false, and every other non-empty
\* string fails with a ValueError carrying the string.
C7_BooleanConversion ==
    (cv_out # Pending /\ BoolInEffect /\ cv_in.value # PyStr(<<>>)) =>
        LET s == cv_in.value.v
        IN IF \E w \in {S_true, S_t, S_yes, S_y} : EqualsIgnoringCase(s, w)
           THEN cv_out = Returned(PyBool(TRUE))
           ELSE IF \E w \in {S_false, S_f, S_no, S_n} : EqualsIgnoringCase(s, w)
           THEN cv_out = Returned(PyBool(FALSE))
           ELSE cv_out = Raised("ValueError", cv_in.value)

C7_Witness ==
    /\ IsNone(cv_in.convert)
    /\ cv_in.default = PyBool(FALSE)
    /\ cv_in.value = PyStr(<<"Y","E","S">>)
    /\ cv_out = Returned(PyBool(TRUE))

\* C8: _convert of the empty string returns the default unchanged, for
\* every default and every converter; no converter is applied and nothing
\* is raised.
C8_EmptyStringGivesDefault ==
    (cv_out # Pending /\ cv_in.value = PyStr(<<>>)) =>
        cv_out = Returned(cv_in.default)

C8_Witness ==
    /\ cv_in.value = PyStr(<<>>)
    /\ cv_in.convert = Callable("reject")
    /\ cv_in.default = PyInt(7)
    /\ cv_out = Returned(PyInt(7))

===========================================================================
